---- MODULE Spec2Model ----
(***************************************************************************)
(* A model of p0f's SSL fingerprinting module (fp_ssl.c): the hex-pattern  *)
(* codec, the greedy pattern matcher, the signature database, the SSLv2    *)
(* and SSLv3/TLS ClientHello dissectors and the per-flow engine.           *)
(*                                                                         *)
(* Arrays of u32 tokens are sequences that end with END_MARKER, as in the  *)
(* code; a NULL array pointer is the empty sequence.  Text is a sequence   *)
(* of one-character strings.  Byte buffers are sequences of 0..255; a      *)
(* read past the written part of a buffer yields 0.                        *)
(***************************************************************************)
EXTENDS Integers, Sequences, FiniteSets, TLC

VARIABLES
  \* ---- the signature database and the process
  signatures,   \* static struct ssl_sig_record* signatures (with signatures_cnt)
  fatal,        \* TRUE once FATAL() has ended the process
  reg,          \* the last ssl_register_sig call: its arguments and outcome
  \* ---- one flow (struct packet_flow) and what process_ssl did to it
  request,      \* f->request: the bytes the client has sent so far and will send
  req_len,      \* f->req_len: how many of them are buffered
  in_ssl,       \* f->in_ssl: 0 undetermined, 1 SSL, -1 not SSL
  last_seen,    \* f->client->last_seen
  call,         \* the last process_ssl call: its arguments, return value, path
  events,       \* the observations emitted for the flow, in order
  dissect_cnt,  \* dissector invocations for the flow
  lookup_cnt,   \* ssl_find_match invocations for the flow
  \* ---- match_sigs, one loop iteration at a time
  m_rec, m_sig, m_st, m_pc,
  \* ---- pure functions applied to drawn inputs
  x_in,         \* the input drawn
  x_out         \* the result, or NotRun

dbVars    == <<signatures, fatal, reg>>
flowVars  == <<request, req_len, in_ssl, last_seen, call, events,
               dissect_cnt, lookup_cnt>>
matchVars == <<m_rec, m_sig, m_st, m_pc>>
funVars   == <<x_in, x_out>>
vars      == <<signatures, fatal, reg, request, req_len, in_ssl, last_seen,
               call, events, dissect_cnt, lookup_cnt,
               m_rec, m_sig, m_st, m_pc, x_in, x_out>>

(***************************************************************************)
(* Constants of fp_ssl.h, config.h and the wire formats.                    *)
(***************************************************************************)
MATCH_MAYBE == 268435456
MATCH_ANY   == 536870912
END_MARKER  == 1073741824

SSL_FLAG_COMPR == 1
SSL_FLAG_V2    == 2
SSL_FLAG_VER   == 4
SSL_FLAG_TIME  == 8
SSL_FLAG_STIME == 16

SSL3_REC_HANDSHAKE    == 22
SSL3_MSG_CLIENT_HELLO == 1

SizeofSsl2Hdr       == 11
SizeofSsl3RecordHdr == 5
SizeofSsl3MessageHdr == 4

MAX_FLOW_DATA == 8192

NULL   == << >>
NotRun == [run |-> FALSE]

(***************************************************************************)
(* Bit and integer helpers (u32 values, single-bit masks).                  *)
(***************************************************************************)
HasBit(x, b) == (x \div b) % 2 = 1
SetBit(x, b) == IF HasBit(x, b) THEN x ELSE x + b
ClrBit(x, b) == IF HasBit(x, b) THEN x - b ELSE x

Min(a, b) == IF a < b THEN a ELSE b

(***************************************************************************)
(* match_sigs: 0 when the record rec matches the exact signature sig.       *)
(***************************************************************************)

\* The inner scans of match_sigs: the first index k >= si with sig[k] = v,
\* before the END_MARKER; the index of the END_MARKER when there is none.
RECURSIVE ScanFor(_, _, _)
ScanFor(sig, si, v) ==
  IF sig[si] = END_MARKER THEN si
  ELSE IF sig[si] = v THEN si
  ELSE ScanFor(sig, si + 1, v)

MatchStart == [ri |-> 1, si |-> 1, match_any |-> 0, ret |-> -1]

\* for (; *rec != END_MARKER && *sig != END_MARKER; rec++)
MatchLoopCond(rec, sig, st) ==
  rec[st.ri] # END_MARKER /\ sig[st.si] # END_MARKER

\* 1. Exact match, move on: the test, and what it does
MatchesHere_ExactOnly(r, s) == r = s
MatchesHere(r, s) == ClrBit(r, MATCH_MAYBE) = s

ExactHit_KeepsAny(st) == [st EXCEPT !.si = @ + 1, !.ri = @ + 1]
ExactHit(st) == [st EXCEPT !.match_any = 0, !.si = @ + 1, !.ri = @ + 1]

\* 2. Star, may match anything
StarHit_NoFlag(st) == [st EXCEPT !.ri = @ + 1]
StarHit(st) == [st EXCEPT !.match_any = 1, !.ri = @ + 1]

\* 3. Optional match, not yet fulfilled
MaybeHit(rec, sig, st) ==
  IF st.match_any = 1
    THEN LET k == ScanFor(sig, st.si, ClrBit(rec[st.ri], MATCH_MAYBE))
         IN  IF sig[k] # END_MARKER
               THEN [st EXCEPT !.match_any = 0, !.si = k + 1, !.ri = @ + 1]
               ELSE [st EXCEPT !.ri = @ + 1]
    ELSE [st EXCEPT !.ri = @ + 1]

\* 4. Looking for an exact match after MATCH_ANY
AfterAny(rec, sig, st) ==
  LET k == ScanFor(sig, st.si, rec[st.ri])
  IN  [st EXCEPT !.si = IF sig[k] = END_MARKER THEN k ELSE k + 1,
                 !.match_any = 0,
                 !.ri = @ + 1]

\* One iteration of the loop, taken when MatchLoopCond holds.
MatchIter(rec, sig, st) ==
  LET r == rec[st.ri]
      s == sig[st.si]
  IN
  IF MatchesHere(r, s) THEN ExactHit(st)
  ELSE IF r = MATCH_ANY THEN StarHit(st)
  ELSE IF HasBit(r, MATCH_MAYBE) THEN MaybeHit(rec, sig, st)
  ELSE IF st.match_any = 1 THEN AfterAny(rec, sig, st)
  ELSE [st EXCEPT !.ret = 1]

\* Step 1 after the loop: roll rec while it has conditional matches.
RECURSIVE RollRec(_, _)
RollRec(rec, ri) ==
  IF HasBit(rec[ri], MATCH_MAYBE) \/ rec[ri] = MATCH_ANY
    THEN RollRec(rec, ri + 1)
    ELSE ri

\* Steps 1 to 4 after the loop.
MatchFinish_NoBothDone(rec, sig, st) ==
  LET ri == RollRec(rec, st.ri)
  IN  [st EXCEPT !.ri = ri,
                 !.ret = IF rec[ri] = END_MARKER /\ st.match_any = 1 THEN 0
                         ELSE 1]
MatchFinish(rec, sig, st) ==
  LET ri == RollRec(rec, st.ri)
  IN  [st EXCEPT !.ri = ri,
                 !.ret = IF rec[ri] = END_MARKER /\ sig[st.si] = END_MARKER THEN 0
                         ELSE IF rec[ri] = END_MARKER /\ st.match_any = 1 THEN 0
                         ELSE 1]

RECURSIVE MatchRun(_, _, _)
MatchRun(rec, sig, st) ==
  IF st.ret # -1 THEN st
  ELSE IF MatchLoopCond(rec, sig, st)
    THEN MatchRun(rec, sig, MatchIter(rec, sig, st))
    ELSE MatchFinish(rec, sig, st)

match_sigs(rec, sig) == MatchRun(rec, sig, MatchStart).ret

(***************************************************************************)
(* Text: a sequence of one-character strings, NUL past its end.             *)
(***************************************************************************)
NUL == "NUL"
Ch(text, i) == IF i >= 1 /\ i <= Len(text) THEN text[i] ELSE NUL

DecDigits == <<"0", "1", "2", "3", "4", "5", "6", "7", "8", "9">>
HexDigits == <<"0", "1", "2", "3", "4", "5", "6", "7", "8", "9",
               "a", "b", "c", "d", "e", "f">>
UpperHex  == <<"A", "B", "C", "D", "E", "F">>

IndexOf(s, c) == CHOOSE i \in 1..Len(s) : s[i] = c
IsIn(s, c)    == \E i \in 1..Len(s) : s[i] = c

IsDecDigit(c) == IsIn(DecDigits, c)
IsHexDigit(c) == IsIn(HexDigits, c) \/ IsIn(UpperHex, c)
HexVal(c) == IF IsIn(HexDigits, c) THEN IndexOf(HexDigits, c) - 1
             ELSE IndexOf(UpperHex, c) + 9

TwoTo24 == 16777216

\* strtol(val, &val, 16) & 0xFFFFFF for a 64-bit long: the low 24 bits of the
\* digits' value, 0xFFFFFF once the value passes LONG_MAX.  n counts the
\* significant digits, top is the first of them.
RECURSIVE HexRun(_, _, _, _, _)
HexRun(text, p, low, n, top) ==
  IF IsHexDigit(Ch(text, p))
    THEN LET d == HexVal(Ch(text, p))
         IN  HexRun(text, p + 1, (low * 16 + d) % TwoTo24,
                    IF n = 0 /\ d = 0 THEN 0 ELSE n + 1,
                    IF n = 0 THEN d ELSE top)
    ELSE [val |-> p,
          low |-> IF n > 16 \/ (n = 16 /\ top >= 8) THEN TwoTo24 - 1 ELSE low]

\* Base 16 takes an optional "0x" before the digits.  The text of a signature
\* line holds no white space and no sign, which strtol would also skip.
Strtol16(text, p) ==
  IF Ch(text, p) = "0" /\ Ch(text, p + 1) \in {"x", "X"}
     /\ IsHexDigit(Ch(text, p + 2))
    THEN HexRun(text, p + 2, 0, 0, 0)
    ELSE HexRun(text, p, 0, 0, 0)

\* strtol(val, &val, 10), for the short digit runs of a version field.
RECURSIVE DecRun(_, _, _)
DecRun(text, p, v) ==
  IF IsDecDigit(Ch(text, p))
    THEN DecRun(text, p + 1, v * 10 + (IndexOf(DecDigits, Ch(text, p)) - 1))
    ELSE [val |-> p, v |-> v]
Strtol10(text, p) == DecRun(text, p, 0)

\* printf("%x") and printf("%i") of a value >= 0
RECURSIVE Hex(_)
Hex(n) == IF n < 16 THEN <<HexDigits[n + 1]>>
          ELSE Hex(n \div 16) \o <<HexDigits[(n % 16) + 1]>>
RECURSIVE Dec(_)
Dec(n) == IF n < 10 THEN <<DecDigits[n + 1]>>
          ELSE Dec(n \div 10) \o <<DecDigits[(n % 10) + 1]>>

\* a | b for values >= 0
RECURSIVE BitOr(_, _)
BitOr(a, b) ==
  IF a = 0 THEN b
  ELSE IF b = 0 THEN a
  ELSE 2 * BitOr(a \div 2, b \div 2) + (IF a % 2 = 1 \/ b % 2 = 1 THEN 1 ELSE 0)

(***************************************************************************)
(* decode_hex_string: a string of comma separated hex numbers to an         *)
(* annotated u32 array.  The result carries the array (NULL on a malformed  *)
(* string), where val points afterwards, and whether FATAL() was reached.   *)
(***************************************************************************)
DecodeCapacity == 128

\* What decode_hex_string holds: where it started (val0), val, the values in
\* rec (p is their number) and how it went: "run" in the loop, "ok" after
\* return ret, "null" after return NULL, "fatal" after FATAL().
DecodeStart(val) == [val0 |-> val, val |-> val, rec |-> << >>, out |-> "run"]

DecodeNull(st) == [st EXCEPT !.out = "null"]

\* case 'a' ... 'f': case '0' ... '9':
StartsNumber(c) == IsIn(HexDigits, c)

\* State #1, default: anything that starts no value
DecodeOther(st) == DecodeNull(st)

\* the end of while (p < 128): no room for one more value
DecodeFull_Never(rec) == FALSE
DecodeFull(rec) == ~(Len(rec) < DecodeCapacity)

\* State #1: expecting value
DecodeValue(text, st) ==
  LET c == Ch(text, st.val) IN
  IF c = "*"
    THEN [st EXCEPT !.val = @ + 1, !.rec = Append(@, MATCH_ANY)]
  ELSE IF c = "?" \/ StartsNumber(c)
    THEN LET prev_val == IF c = "?" THEN st.val + 1 ELSE st.val
             optional == IF c = "?" THEN MATCH_MAYBE ELSE 0
             n        == Strtol16(text, prev_val)
         IN  IF n.val = prev_val
               THEN DecodeNull(st)
               ELSE [st EXCEPT !.val = n.val,
                               !.rec = Append(@, BitOr(n.low, optional))]
  ELSE DecodeOther(st)

\* State #2: comma, expecting '\0' or ':'
DecodeSep(text, st) ==
  LET c == Ch(text, st.val) IN
  IF c = ":" \/ c = NUL THEN [st EXCEPT !.out = "ok"]
  ELSE IF c = "," THEN [st EXCEPT !.val = @ + 1]
  ELSE DecodeNull(st)

\* One round of while (p < 128)
DecodeIter(text, st) ==
  LET a == DecodeValue(text, st)
  IN  IF a.out = "run" THEN DecodeSep(text, a) ELSE a

\* FATAL("Too many ciphers or extensions in line %u.", line_no)
DecodeFatal(st) == [st EXCEPT !.out = "fatal"]

RECURSIVE DecodeRun(_, _)
DecodeRun(text, st) ==
  IF st.out # "run" THEN st
  ELSE IF DecodeFull(st.rec) THEN DecodeFatal(st)
  ELSE DecodeRun(text, DecodeIter(text, st))

\* What the caller sees: the array (NULL unless returned), *val_ptr, FATAL
DecodeResult(st) ==
  [ret   |-> IF st.out = "ok" THEN Append(st.rec, END_MARKER) ELSE NULL,
   val   |-> IF st.out = "ok" THEN st.val ELSE st.val0,
   fatal |-> st.out = "fatal"]

decode_hex_string(text, val) == DecodeResult(DecodeRun(text, DecodeStart(val)))

(***************************************************************************)
(* dump_sig: signature to string.                                           *)
(***************************************************************************)
\* struct flag flags[]: name, name_len, value
flags == << [name |-> <<"c", "o", "m", "p", "r">>, name_len |-> 4,
             value |-> SSL_FLAG_COMPR],
            [name |-> <<"v", "2">>, name_len |-> 2, value |-> SSL_FLAG_V2],
            [name |-> <<"v", "e", "r">>, name_len |-> 3, value |-> SSL_FLAG_VER],
            [name |-> <<"t", "i", "m", "e">>, name_len |-> 4,
             value |-> SSL_FLAG_TIME],
            [name |-> <<"s", "t", "i", "m", "e">>, name_len |-> 5,
             value |-> SSL_FLAG_STIME] >>

Comma(i) == IF i > 1 THEN <<",">> ELSE << >>

\* (c & MATCH_MAYBE) ? "?" : ""  for a cipher suite
CipherMark(c) == IF HasBit(c, MATCH_MAYBE) THEN <<"?">> ELSE << >>

\* ((ext & MATCH_MAYBE) || ext == 0) ? "?" : ""  for an extension
ExtMark_MaybeOnly(ext) == IF HasBit(ext, MATCH_MAYBE) THEN <<"?">> ELSE << >>
ExtMark(ext) == IF HasBit(ext, MATCH_MAYBE) \/ ext = 0 THEN <<"?">> ELSE << >>

RECURSIVE DumpCiphers(_, _)
DumpCiphers(arr, i) ==
  IF arr[i] = END_MARKER THEN << >>
  ELSE (IF arr[i] # MATCH_ANY
          THEN Comma(i) \o CipherMark(arr[i]) \o Hex(ClrBit(arr[i], MATCH_MAYBE))
          ELSE Comma(i) \o <<"*">>)
       \o DumpCiphers(arr, i + 1)

RECURSIVE DumpExtensions(_, _)
DumpExtensions(arr, i) ==
  IF arr[i] = END_MARKER THEN << >>
  ELSE (IF arr[i] # MATCH_ANY
          THEN Comma(i) \o ExtMark(arr[i]) \o Hex(ClrBit(arr[i], MATCH_MAYBE))
          ELSE Comma(i) \o <<"*">>)
       \o DumpExtensions(arr, i + 1)

RECURSIVE DumpFlags(_, _, _)
DumpFlags(fl, i, had_prev) ==
  IF i > Len(flags) THEN << >>
  ELSE IF HasBit(fl, flags[i].value)
    THEN (IF had_prev THEN <<",">> ELSE << >>) \o flags[i].name
         \o DumpFlags(fl, i + 1, TRUE)
    ELSE DumpFlags(fl, i + 1, had_prev)

dump_sig(sig) ==
  Dec(sig.request_version \div 256) \o <<".">> \o Dec(sig.request_version % 256)
  \o <<":">> \o DumpCiphers(sig.cipher_suites, 1)
  \o <<":">> \o DumpExtensions(sig.extensions, 1)
  \o <<":">> \o DumpFlags(sig.flags, 1, FALSE)


(***************************************************************************)
(* ssl_register_sig: register a new SSL signature.  The result is the new   *)
(* table and whether FATAL() ended the process.                             *)
(***************************************************************************)
Fatal(db) == [signatures |-> db, fatal |-> TRUE]

\* !strncmp(val, flags[i].name, flags[i].name_len)
FlagAt(text, val, i) ==
  \A k \in 1..flags[i].name_len : Ch(text, val + k - 1) = flags[i].name[k]

\* if (*val == ',') val++;
AfterFlag(text, val) == IF Ch(text, val) = "," THEN val + 1 ELSE val

\* while (*val) { ... }: the flags so far, or fatal at an unrecognized flag
RECURSIVE ParseFlags(_, _, _)
ParseFlags(text, val, fl) ==
  IF Ch(text, val) = NUL THEN [fatal |-> FALSE, flags |-> fl]
  ELSE IF \E i \in 1..Len(flags) : FlagAt(text, val, i)
    THEN LET i == CHOOSE i \in 1..Len(flags) :
                    /\ FlagAt(text, val, i)
                    /\ \A j \in 1..(i - 1) : ~FlagAt(text, val, j)
         IN  ParseFlags(text, AfterFlag(text, val + flags[i].name_len),
                        SetBit(fl, flags[i].value))
    ELSE [fatal |-> TRUE, flags |-> fl]

\* ssig->request_version = (maj << 8) | min, a u16
RequestVersion(maj, min) == BitOr(maj * 256, min) % 65536

\* Client signatures only.
ForClient_Any(to_srv) == TRUE
ForClient(to_srv) == to_srv = 1

ssl_register_sig(db, to_srv, name_id, text, line_no) ==
  IF ~ForClient(to_srv) THEN [signatures |-> db, fatal |-> FALSE]
  ELSE
  LET maj == Strtol10(text, 1) IN
  IF Ch(text, maj.val) # "." THEN Fatal(db) ELSE
  LET min == Strtol10(text, maj.val + 1) IN
  IF Ch(text, min.val) # ":" THEN Fatal(db) ELSE
  LET cs == decode_hex_string(text, min.val + 1) IN
  IF cs.fatal \/ Ch(text, cs.val) # ":" \/ cs.ret = NULL THEN Fatal(db) ELSE
  LET ex == decode_hex_string(text, cs.val + 1) IN
  IF ex.fatal \/ Ch(text, ex.val) # ":" \/ ex.ret = NULL THEN Fatal(db) ELSE
  LET fl == ParseFlags(text, ex.val + 1, 0) IN
  IF fl.fatal THEN Fatal(db) ELSE
  [signatures |->
     Append(db, [sig |-> [request_version |-> RequestVersion(maj.v, min.v),
                          cipher_suites   |-> cs.ret,
                          extensions      |-> ex.ret,
                          flags           |-> fl.flags],
                 name_id |-> name_id,
                 line_no |-> line_no]),
   fatal |-> FALSE]

(***************************************************************************)
(* ssl_find_match: the index of the first record that matches ts, 0 for     *)
(* ts->matched left NULL.                                                   *)
(***************************************************************************)
\* SSL versions must match exactly.
SameVersion(rs, ts) == rs.request_version = ts.request_version

\* Flags - exact match
SameFlags(rs, ts) == ts.flags = rs.flags

RecordMatches(rs, ts) ==
  /\ SameVersion(rs, ts)
  /\ SameFlags(rs, ts)
  /\ match_sigs(rs.extensions, ts.extensions) = 0
  /\ match_sigs(rs.cipher_suites, ts.cipher_suites) = 0

\* for (i = 0; i < signatures_cnt; i++)
RECURSIVE FindFrom_NoReturn(_, _, _)
FindFrom_NoReturn(db, ts, i) ==
  IF ~(i <= Len(db)) THEN 0
  ELSE LET later == FindFrom_NoReturn(db, ts, i + 1)
       IN  IF later # 0 THEN later
           ELSE IF RecordMatches(db[i].sig, ts) THEN i ELSE 0

RECURSIVE FindFrom(_, _, _)
FindFrom(db, ts, i) ==
  IF ~(i <= Len(db)) THEN 0
  ELSE IF RecordMatches(db[i].sig, ts) THEN i
  ELSE FindFrom(db, ts, i + 1)

ssl_find_match(db, ts) == FindFrom(db, ts, 1)

(***************************************************************************)
(* Byte buffers.  Offsets count from 0, as the code's pointers do.          *)
(***************************************************************************)
Byte(buf, off) == IF off >= 0 /\ off < Len(buf) THEN buf[off + 1] ELSE 0
Be16(buf, off) == Byte(buf, off) * 256 + Byte(buf, off + 1)
Be24_WideShift(buf, off) ==
  Byte(buf, off) * 4194304 + Byte(buf, off + 1) * 256 + Byte(buf, off + 2)
Be24(buf, off) == Byte(buf, off) * 65536 + Byte(buf, off + 1) * 256
                  + Byte(buf, off + 2)
From(buf, off) == SubSeq(buf, off + 1, Len(buf))

\* u32 values are pairs <<high 16 bits, low 16 bits>>
U32(hi, lo) == <<hi, lo>>
U32Lt(a, b) == a[1] < b[1] \/ (a[1] = b[1] /\ a[2] < b[2])
U32Sub(a, b) ==
  LET borrow == IF a[2] < b[2] THEN 1 ELSE 0
  IN  <<(a[1] - b[1] - borrow + 65536) % 65536, (a[2] - b[2] + 65536) % 65536>>
U32Zero == <<0, 0>>
IntMin == <<32768, 0>>

\* memset(&sig, 0, sizeof(struct ssl_sig))
ZeroSig == [request_version |-> 0, cipher_suites |-> NULL, extensions |-> NULL,
            flags |-> 0, remote_time |-> U32Zero, drift |-> U32Zero,
            matched |-> 0]

(***************************************************************************)
(* fingerprint_ssl_v2: unpack SSLv2 header to a signature.                  *)
(* ret is -1 on parsing error, 1 if signature was extracted.                *)
(***************************************************************************)
\* struct ssl2_hdr: the offsets of its fields
Ssl2MsgType   == 2
Ssl2VerMaj    == 3
Ssl2VerMin    == 4
Ssl2CipherLen == 5
Ssl2SessLen   == 7
Ssl2ChalLen   == 9

\* sig->cipher_suites[cipher_pos++] = (pay[0] << 16) | (pay[1] << 8) | pay[2]
RECURSIVE ReadCiphers3(_, _, _)
ReadCiphers3(buf, pay, tmp_end) ==
  IF pay < tmp_end
    THEN <<Be24(buf, pay)>> \o ReadCiphers3(buf, pay + 3, tmp_end)
    ELSE <<END_MARKER>>

\* Most often - SSLv2 header has request version set to 3.x
Ssl2Version_NoQuirk(ver_maj, ver_min) == ver_maj * 256 + ver_min
Ssl2Version(ver_maj, ver_min) ==
  IF ver_min = 2 /\ ver_maj = 0 THEN 512 ELSE ver_maj * 256 + ver_min

\* if (cipher_spec_len % 3)
Ssl2BadCipherLen_Never(cipher_spec_len) == FALSE
Ssl2BadCipherLen(cipher_spec_len) == cipher_spec_len % 3 # 0

\* if (pay + session_id_len + challenge_len > pay_end) goto truncated;
\* if (pay != pay_end) DEBUG("extra bytes remaining"): only the log differs
Ssl2Trailer(buf, pay, pay_len) ==
  LET after == pay + Be16(buf, Ssl2SessLen) + Be16(buf, Ssl2ChalLen)
  IN  IF after > pay_len THEN "truncated"
      ELSE IF after # pay_len THEN "extra"
      ELSE "exact"

fingerprint_ssl_v2(sig, buf, pay_len) ==
  IF SizeofSsl2Hdr > pay_len
    THEN [ret |-> -1, sig |-> sig, path |-> "too_short"] ELSE
  LET s1 == [sig EXCEPT !.request_version =
                          Ssl2Version(Byte(buf, Ssl2VerMaj), Byte(buf, Ssl2VerMin))]
      cipher_spec_len == Be16(buf, Ssl2CipherLen)
      pay == SizeofSsl2Hdr
  IN
  IF Ssl2BadCipherLen(cipher_spec_len)
    THEN [ret |-> -1, sig |-> s1, path |-> "bad_len"] ELSE
  IF pay + cipher_spec_len > pay_len
    THEN [ret |-> -1, sig |-> s1, path |-> "too_short"] ELSE
  [ret |-> 1,
   sig |-> [s1 EXCEPT !.cipher_suites = ReadCiphers3(buf, pay, pay + cipher_spec_len),
                      !.extensions = <<END_MARKER>>],
   path |-> Ssl2Trailer(buf, pay + cipher_spec_len, pay_len)]

(***************************************************************************)
(* fingerprint_ssl_v3: unpack SSLv3 fragment to a signature.                *)
(* ret is -1 on parsing error, 1 if signature was extracted.                *)
(***************************************************************************)
\* 1*365*24*60*60 and 5*365*24*60*60 as u32 pairs
OneYear   == <<481, 13184>>
FiveYears == <<2406, 384>>

\* abs(sig->drift) > 5*365*24*60*60 for the s32 drift.  abs(INT_MIN) is
\* undefined: abs_min is what the comparison then gives.
DriftTooBig(drift, abs_min) ==
  IF drift = IntMin THEN abs_min
  ELSE IF drift[1] >= 32768 THEN U32Lt(FiveYears, U32Sub(U32Zero, drift))
  ELSE U32Lt(FiveYears, drift)

TimeFlags_Both(fl, remote_time, drift, abs_min) ==
  LET stime == IF U32Lt(remote_time, OneYear)
                 THEN SetBit(fl, SSL_FLAG_STIME) ELSE fl
  IN  IF DriftTooBig(drift, abs_min) THEN SetBit(stime, SSL_FLAG_TIME)
      ELSE stime
TimeFlags(fl, remote_time, drift, abs_min) ==
  IF U32Lt(remote_time, OneYear) THEN SetBit(fl, SSL_FLAG_STIME)
  ELSE IF DriftTooBig(drift, abs_min) THEN SetBit(fl, SSL_FLAG_TIME)
  ELSE fl

\* sig->cipher_suites[cipher_pos++] = (pay[0] << 8) | pay[1]
RECURSIVE ReadCiphers2(_, _, _)
ReadCiphers2(buf, pay, tmp_end) ==
  IF pay < tmp_end
    THEN <<Be16(buf, pay)>> \o ReadCiphers2(buf, pay + 2, tmp_end)
    ELSE <<END_MARKER>>

\* if (pay[0] == 1) sig->flags |= SSL_FLAG_COMPR, for each compression method
ComprFlag(fl, buf, pay, tmp_end) ==
  IF \E k \in pay..(tmp_end - 1) : Byte(buf, k) = 1
    THEN SetBit(fl, SSL_FLAG_COMPR) ELSE fl

\* while (pay + 4 <= tmp_end) { ... if (pay > tmp_end) break; }
RECURSIVE ReadExtensions(_, _, _)
ReadExtensions(buf, pay, tmp_end) ==
  IF pay + 4 <= tmp_end
    THEN LET ext_type == Be16(buf, pay)
             ext_len  == Be16(buf, pay + 2)
             next     == pay + 4 + ext_len
         IN  IF next > tmp_end
               THEN <<ext_type, END_MARKER>>
               ELSE <<ext_type>> \o ReadExtensions(buf, next, tmp_end)
    ELSE <<END_MARKER>>

\* if (pay_end > frag_end): fragment coalescing not supported
Coalesced(pay_end, frag_end) == pay_end > frag_end

\* truncated: if (!sig->extensions) the extensions become the empty list
Ssl3Done_NoAlloc(sig, path) == [ret |-> 1, sig |-> sig, path |-> path]
Ssl3Done(sig, path) ==
  [ret |-> 1,
   sig |-> IF sig.extensions = NULL
             THEN [sig EXCEPT !.extensions = <<END_MARKER>>] ELSE sig,
   path |-> path]

Ssl3Fail(sig, path) == [ret |-> -1, sig |-> sig, path |-> path]

fingerprint_ssl_v3(sig, frag, frag_len, record_version, local_time, abs_min) ==
  LET msg_len == Be24(frag, 1)
      pay0    == SizeofSsl3MessageHdr
      pay_end == pay0 + msg_len
  IN
  IF Coalesced(pay_end, frag_len) THEN Ssl3Fail(sig, "coalesced") ELSE
  IF Byte(frag, 0) # SSL3_MSG_CLIENT_HELLO THEN Ssl3Fail(sig, "not_hello") ELSE
  IF pay0 + 2 + 4 + 28 + 1 > pay_end THEN Ssl3Fail(sig, "too_short") ELSE
  LET version == Be16(frag, pay0)
      remote  == U32(Be16(frag, pay0 + 2), Be16(frag, pay0 + 4))
      drift   == U32Sub(local_time, remote)
      s1 == [sig EXCEPT
               !.request_version = version,
               !.remote_time = remote,
               !.drift = drift,
               !.flags = TimeFlags(IF version # record_version
                                     THEN SetBit(@, SSL_FLAG_VER) ELSE @,
                                   remote, drift, abs_min)]
      session_id_len == Byte(frag, pay0 + 34)
      pay1 == pay0 + 35
  IN
  IF pay1 + session_id_len + 2 > pay_end THEN Ssl3Fail(s1, "too_short") ELSE
  LET pay2 == pay1 + session_id_len
      cipher_suites_len == Be16(frag, pay2)
      pay3 == pay2 + 2
  IN
  IF cipher_suites_len % 2 # 0 THEN Ssl3Fail(s1, "odd_len") ELSE
  IF pay3 + cipher_suites_len > pay_end THEN Ssl3Fail(s1, "too_short") ELSE
  LET s2 == [s1 EXCEPT !.cipher_suites =
                         ReadCiphers2(frag, pay3, pay3 + cipher_suites_len)]
      pay4 == pay3 + cipher_suites_len
  IN
  IF pay4 + 1 > pay_end THEN Ssl3Done(s2, "truncated") ELSE
  LET compression_methods_len == Byte(frag, pay4)
      pay5 == pay4 + 1
  IN
  IF pay5 + compression_methods_len > pay_end THEN Ssl3Done(s2, "truncated") ELSE
  LET pay6 == pay5 + compression_methods_len
      s3 == [s2 EXCEPT !.flags = ComprFlag(@, frag, pay5, pay6)]
  IN
  IF pay6 + 2 > pay_end THEN Ssl3Done(s3, "truncated") ELSE
  LET extensions_len == Be16(frag, pay6)
      pay7 == pay6 + 2
  IN
  IF pay7 + extensions_len > pay_end THEN Ssl3Done(s3, "truncated") ELSE
  Ssl3Done([s3 EXCEPT !.extensions =
                        ReadExtensions(frag, pay7, pay7 + extensions_len)],
           "parsed")

(***************************************************************************)
(* fingerprint_ssl: look the signature up and emit the observation.         *)
(***************************************************************************)
\* abs(sig->drift), the bits of the result
AbsDrift(drift) == IF drift[1] >= 32768 THEN U32Sub(U32Zero, drift) ELSE drift

\* (sig->flags & (SSL_FLAG_TIME | SSL_FLAG_STIME)) == 0
DriftShown(fl) == ~HasBit(fl, SSL_FLAG_TIME) /\ ~HasBit(fl, SSL_FLAG_STIME)

fingerprint_ssl(to_srv, db, sig) ==
  LET m == IF to_srv # 0 THEN ssl_find_match(db, sig) ELSE 0
  IN  [matched   |-> m,
       name_id   |-> IF m # 0 THEN db[m].name_id ELSE 0,
       match_sig |-> IF m # 0 THEN dump_sig(db[m].sig) ELSE NULL,
       drift     |-> IF DriftShown(sig.flags) THEN AbsDrift(sig.drift) ELSE NULL,
       raw_sig   |-> dump_sig(sig),
       sig       |-> sig]

(***************************************************************************)
(* process_ssl: examine a request; the return value is 1 if more data is    *)
(* needed and plausibly can be read.  The result carries f->in_ssl, the     *)
(* return value, the observation emitted (if any) and the path taken.       *)
(***************************************************************************)
\* Already decided this flow?
Decided_OnlyRejected(f_in_ssl) == f_in_ssl < 0
Decided(f_in_ssl) == f_in_ssl # 0

\* u8 can_get_more = (f->req_len < MAX_FLOW_DATA)
CanGetMore_Always(f_req_len) == 1
CanGetMore(f_req_len) == IF f_req_len < MAX_FLOW_DATA THEN 1 ELSE 0

\* Does it look like top 5 bytes of SSLv2?
LooksSsl2(buf) ==
  LET msg_length == Be16(buf, 0) IN
  /\ msg_length >= 32768
  /\ msg_length - 32768 >= SizeofSsl2Hdr - 2
  /\ Byte(buf, Ssl2MsgType) = 1
  /\ \/ (Byte(buf, Ssl2VerMaj) = 3 /\ Byte(buf, Ssl2VerMin) < 4)
     \/ (Byte(buf, Ssl2VerMin) = 2 /\ Byte(buf, Ssl2VerMaj) = 0)

\* Top 5 bytes of SSLv3/TLS header?
LooksSsl3(buf) ==
  LET fragment_len == Be16(buf, 3) IN
  /\ Byte(buf, 0) = SSL3_REC_HANDSHAKE
  /\ Byte(buf, 1) = 3 /\ Byte(buf, 2) < 4
  /\ fragment_len > 3 /\ fragment_len < 16384
  /\ Byte(buf, 5) = SSL3_MSG_CLIENT_HELLO

\* The bytes process_ssl may read: the req_len buffered ones, then zeroes.
Buffered(f_request, f_req_len) ==
  IF f_req_len >= Len(f_request) THEN f_request
  ELSE SubSeq(f_request, 1, f_req_len)

Returned(f_in_ssl, ret, path) ==
  [in_ssl |-> f_in_ssl, ret |-> ret, event |-> NULL, path |-> path,
   dissected |-> 0, looked |-> 0]

\* if (success != 1) { f->in_ssl = -1; return 0; }
NotSsl_Undecided(path, dissected) ==
  [in_ssl |-> 0, ret |-> 0, event |-> NULL, path |-> path,
   dissected |-> dissected, looked |-> 0]
NotSsl(path, dissected) ==
  [in_ssl |-> -1, ret |-> 0, event |-> NULL, path |-> path,
   dissected |-> dissected, looked |-> 0]

\* f->in_ssl = 1; fingerprint_ssl(to_srv, f, &sig); return 0;
AfterDissect_StaysUndetermined(to_srv, db, d, path) ==
  IF d.ret # 1 THEN NotSsl(path, 1)
  ELSE [in_ssl |-> 0, ret |-> 0,
        event |-> <<fingerprint_ssl(to_srv, db, d.sig)>>,
        path |-> path, dissected |-> 1, looked |-> 1]
AfterDissect(to_srv, db, d, path) ==
  IF d.ret # 1 THEN NotSsl(path, 1)
  ELSE [in_ssl |-> 1, ret |-> 0,
        event |-> <<fingerprint_ssl(to_srv, db, d.sig)>>,
        path |-> path, dissected |-> 1, looked |-> 1]

process_ssl(to_srv, db, f_request, f_req_len, f_in_ssl, f_last_seen, abs_min) ==
  IF Decided(f_in_ssl) THEN Returned(f_in_ssl, 0, "decided") ELSE
  IF to_srv = 0 THEN Returned(f_in_ssl, 0, "to_client") ELSE
  LET can_get_more == CanGetMore(f_req_len)
      buf == Buffered(f_request, f_req_len)
  IN
  IF f_req_len < 6 THEN Returned(f_in_ssl, can_get_more, "short") ELSE
  IF LooksSsl2(buf)
    THEN LET msg_length == Be16(buf, 0) - 32768 IN
         IF f_req_len < 2 + msg_length
           THEN Returned(f_in_ssl, can_get_more, "v2_wait")
           ELSE AfterDissect(to_srv, db,
                      fingerprint_ssl_v2([ZeroSig EXCEPT !.flags = SSL_FLAG_V2],
                                         buf, msg_length + 2),
                      "v2")
  ELSE IF LooksSsl3(buf)
    THEN LET fragment_len == Be16(buf, 3) IN
         IF f_req_len < SizeofSsl3RecordHdr + fragment_len
           THEN Returned(f_in_ssl, can_get_more, "v3_wait")
           ELSE AfterDissect(to_srv, db,
                      fingerprint_ssl_v3(ZeroSig, From(buf, SizeofSsl3RecordHdr),
                                         fragment_len,
                                         Byte(buf, 1) * 256 + Byte(buf, 2),
                                         f_last_seen, abs_min),
                      "v3")
  ELSE NotSsl("no_template", 0)

(***************************************************************************)
(* Inputs: wire bytes of client requests and text of signature lines.       *)
(***************************************************************************)
Put16(n) == <<n \div 256, n % 256>>
Put24(n) == <<n \div 65536, (n \div 256) % 256, n % 256>>
Fill(n, b) == [i \in 1..n |-> b]

RECURSIVE Flat(_)
Flat(ss) == IF ss = << >> THEN << >> ELSE Head(ss) \o Flat(Tail(ss))

\* One extension on the wire: type, length, payload
ExtBytes(e) == Put16(e.type) \o Put16(e.len) \o Fill(e.len, 5)
ExtList(exts) == Flat([i \in 1..Len(exts) |-> ExtBytes(exts[i])])
ExtTypes(exts) == [i \in 1..Len(exts) |-> exts[i].type]

\* A ClientHello body up to and including the compression methods
HelloHead(version, time, sid_len, ciphers, compr) ==
  Put16(version) \o Put16(time[1]) \o Put16(time[2]) \o Fill(28, 7)
  \o <<sid_len>> \o Fill(sid_len, 9)
  \o Put16(2 * Len(ciphers)) \o Flat([i \in 1..Len(ciphers) |-> Put16(ciphers[i])])
  \o <<Len(compr)>> \o compr

\* A handshake message and an SSLv3/TLS record around it
Handshake(type, msg_len, body) == <<type>> \o Put24(msg_len) \o body
Record3(version, fragment_len, fragment) ==
  <<SSL3_REC_HANDSHAKE>> \o Put16(version) \o Put16(fragment_len) \o fragment

Hello3(rec_ver, version, time, ciphers, compr, exts) ==
  LET body == HelloHead(version, time, 0, ciphers, compr)
              \o Put16(Len(ExtList(exts))) \o ExtList(exts)
  IN  Record3(rec_ver, Len(body) + 4,
              Handshake(SSL3_MSG_CLIENT_HELLO, Len(body), body))

\* An SSLv2 CLIENT-HELLO
Hello2(msg_length, ver_maj, ver_min, cipher_spec_len, sess_len, chal_len, rest) ==
  Put16(32768 + msg_length) \o <<1, ver_maj, ver_min>>
  \o Put16(cipher_spec_len) \o Put16(sess_len) \o Put16(chal_len) \o rest

Now     == <<20000, 0>>
NearNow == <<19999, 65000>>
Booted  == <<0, 4000>>
Random  == <<50000, 123>>

ExtsSni   == << [type |-> 0, len |-> 2], [type |-> 10, len |-> 0],
                [type |-> 35, len |-> 1] >>
ExtsNoSni == << [type |-> 10, len |-> 0], [type |-> 11, len |-> 1] >>

\* 80 2F 01 00 02 00 00 00 00 00 06 01 00 80 07 00 C0
LiteralV2 == <<128, 47, 1, 0, 2, 0, 0, 0, 0, 0, 6, 1, 0, 128, 7, 0, 192>>

Requests ==
  { Hello3(769, 769, NearNow, <<47, 53>>, <<0>>, ExtsSni),
    Hello3(769, 771, NearNow, <<47>>, <<1, 0>>, ExtsNoSni),
    Hello3(768, 768, Booted, <<10>>, <<0>>, << >>),
    Hello3(769, 769, Random, <<47, 53>>, <<0>>, ExtsNoSni),
    \* the message ends after the cipher suites
    LET body == HelloHead(769, NearNow, 0, <<47, 53>>, << >>)
    IN  Record3(769, Len(body) + 3,
                Handshake(SSL3_MSG_CLIENT_HELLO, Len(body) - 1,
                          SubSeq(body, 1, Len(body) - 1))),
    \* an odd cipher suites length
    LET body == Put16(769) \o Fill(32, 7) \o <<0>> \o Put16(3) \o <<0, 47, 0>>
    IN  Record3(769, Len(body) + 4,
                Handshake(SSL3_MSG_CLIENT_HELLO, Len(body), body)),
    \* a message longer than its record
    LET body == HelloHead(769, NearNow, 0, <<47>>, <<0>>)
    IN  Record3(769, Len(body) + 4,
                Handshake(SSL3_MSG_CLIENT_HELLO, Len(body) + 40, body)),
    \* a record longer than a flow may retain
    Record3(769, MAX_FLOW_DATA + 100,
            Handshake(SSL3_MSG_CLIENT_HELLO, MAX_FLOW_DATA + 96, <<3, 1>>)),
    Hello2(9 + 6 + 16, 3, 0, 6, 0, 16, <<1, 0, 128, 7, 0, 192>> \o Fill(16, 7)),
    Hello2(9 + 3, 0, 2, 3, 0, 16, <<7, 0, 192>>),
    Hello2(9 + 4, 3, 1, 4, 0, 0, <<1, 0, 128, 7>>),
    Hello2(MAX_FLOW_DATA + 100, 3, 1, 3, 0, 16, <<7, 0, 192>>),
    LiteralV2,
    \* "GET / HTTP"
    <<71, 69, 84, 32, 47, 32, 72, 84, 84, 80>>,
    <<22, 3, 1, 0>> }

LastSeen == {Now}

\* Signature lines
Line_Tls10  == <<"3", ".", "1", ":", "2", "f", ",", "3", "5", ":", "?", "0", ",", "a", ",", "2", "3", ":">>
Line_Any31  == <<"3", ".", "1", ":", "*", ":", "*", ":">>
Line_V2     == <<"3", ".", "0", ":", "1", "0", "0", "8", "0", ",", "7", "0", "0", "c", "0", ":", "*", ":", "v", "2">>
Line_Compr  == <<"3", ".", "3", ":", "*", ":", "*", ":", "c", "o", "m", "p", "r">>
Line_Bad    == <<"3", ".", "1", ":", "z", "z", ":", "*", ":">>
Lines == {Line_Tls10, Line_Any31, Line_V2, Line_Compr, Line_Bad}

\* The most signatures registered
MaxSigs == 2

\* Where a client's bytes may stop arriving for a while
Arrivals(f_request) ==
  {3, 6, Len(f_request) \div 2, Len(f_request), MAX_FLOW_DATA}

(***************************************************************************)
(* The flow engine: signatures are registered, then a client's bytes        *)
(* arrive and process_ssl runs on the flow.                                 *)
(***************************************************************************)
NoCall == [run |-> FALSE]
NoReg  == [run |-> FALSE]

IdleDb    == signatures = << >> /\ fatal = FALSE /\ reg = NoReg
IdleFlow  == /\ request = << >> /\ req_len = 0 /\ in_ssl = 0
             /\ last_seen = U32Zero /\ call = NoCall /\ events = << >>
             /\ dissect_cnt = 0 /\ lookup_cnt = 0
IdleMatch == m_rec = << >> /\ m_sig = << >> /\ m_st = MatchStart /\ m_pc = "idle"
IdleFun   == x_in = NotRun /\ x_out = NotRun

Init ==
  /\ IdleDb
  /\ request \in Requests
  /\ last_seen \in LastSeen
  /\ req_len = 0 /\ in_ssl = 0 /\ call = NoCall /\ events = << >>
  /\ dissect_cnt = 0 /\ lookup_cnt = 0
  /\ IdleMatch /\ IdleFun

\* Would the line be fatal when it is registered for the client direction?
Malformed(text) == ssl_register_sig(<< >>, 1, 1, text, 1).fatal

\* The loader registers a line; it runs before any traffic is processed.
Register(to_srv, text) ==
  /\ ~fatal /\ call = NoCall /\ req_len = 0
  /\ Len(signatures) < MaxSigs
  /\ LET r == ssl_register_sig(signatures, to_srv, Len(signatures) + 1, text,
                               Len(signatures) + 1)
     IN  /\ signatures' = r.signatures
         /\ fatal' = r.fatal
         /\ reg' = [run |-> TRUE, to_srv |-> to_srv, before |-> Len(signatures),
                 malformed |-> Malformed(text)]
  /\ UNCHANGED <<flowVars, matchVars, funVars>>

\* More of the client's bytes are buffered, up to MAX_FLOW_DATA.
Receive(n) ==
  /\ ~fatal
  /\ n > req_len /\ n <= MAX_FLOW_DATA
  /\ req_len' = n
  /\ UNCHANGED <<dbVars, request, in_ssl, last_seen, call, events,
                 dissect_cnt, lookup_cnt, matchVars, funVars>>

Process(to_srv, abs_min) ==
  /\ ~fatal
  /\ LET r == process_ssl(to_srv, signatures, request, req_len, in_ssl,
                          last_seen, abs_min)
     IN  /\ in_ssl' = r.in_ssl
         /\ events' = events \o r.event
         /\ dissect_cnt' = dissect_cnt + r.dissected
         /\ lookup_cnt' = lookup_cnt + r.looked
         /\ call' = [run |-> TRUE, to_srv |-> to_srv, ret |-> r.ret,
                     path |-> r.path, was |-> in_ssl, req_len |-> req_len]
  /\ UNCHANGED <<dbVars, request, req_len, last_seen, matchVars, funVars>>

Next ==
  \/ \E to_srv \in {0, 1}, text \in Lines : Register(to_srv, text)
  \/ \E n \in Arrivals(request) : Receive(n)
  \/ \E to_srv \in {0, 1}, abs_min \in BOOLEAN : Process(to_srv, abs_min)

Spec == Init /\ [][Next]_vars

(***************************************************************************)
(* Properties of the flow engine.                                           *)
(***************************************************************************)
\* Text split at a separator, and the tokens of one field of a signature
RECURSIVE SplitOn(_, _)
SplitOn(text, sep) ==
  IF \E i \in 1..Len(text) : text[i] = sep
    THEN LET i == CHOOSE i \in 1..Len(text) :
                    text[i] = sep /\ \A j \in 1..(i - 1) : text[j] # sep
         IN  <<SubSeq(text, 1, i - 1)>> \o SplitOn(SubSeq(text, i + 1, Len(text)), sep)
    ELSE <<text>>
Tokens(field) == IF field = << >> THEN << >> ELSE SplitOn(field, ",")
IsLiteralHex(tok) ==
  Len(tok) >= 1 /\ \A k \in 1..Len(tok) : IsIn(HexDigits, tok[k])

\* The last call found the flow undetermined, in the client direction, with
\* at least 6 bytes buffered
Examined == call.run /\ call.was = 0 /\ call.to_srv = 1 /\ call.req_len >= 6
CallBuf  == Buffered(request, call.req_len)
DeclaredV2 == 2 + (Be16(CallBuf, 0) - 32768)
DeclaredV3 == SizeofSsl3RecordHdr + Be16(CallBuf, 3)
TemplateV2 == LooksSsl2(CallBuf)
TemplateV3 == ~LooksSsl2(CallBuf) /\ LooksSsl3(CallBuf)

\* C1: once a flow is ConfirmedSSL or ConfirmedNotSSL, a process_ssl call on
\* it, in either direction and whatever is buffered, leaves the state as it
\* is, runs no dissector and no lookup, and emits no event.
C1_DecidedFlowIsLeftAlone ==
  [][\A to_srv \in {0, 1}, abs_min \in BOOLEAN :
       (in_ssl # 0 /\ Process(to_srv, abs_min))
         => /\ in_ssl' = in_ssl
            /\ events' = events
            /\ dissect_cnt' = dissect_cnt
            /\ lookup_cnt' = lookup_cnt]_vars

C1_Witness ==
  /\ call.run /\ call.was = 1 /\ call.to_srv = 1
  /\ Len(events) = 1 /\ dissect_cnt = 1 /\ lookup_cnt = 1

\* C5, as the specification states it: the raw_sig of a dissected handshake
\* holds only literal hex tokens in its cipher and extension fields.
C5_RawSigOnlyLiteralHex ==
  \A n \in 1..Len(events) :
    LET f == SplitOn(events[n].raw_sig, ":")
    IN  /\ \A i \in 1..Len(Tokens(f[2])) : IsLiteralHex(Tokens(f[2])[i])
        /\ \A i \in 1..Len(Tokens(f[3])) : IsLiteralHex(Tokens(f[3])[i])

\* C5, amended: every cipher is rendered as literal hex, and so is every
\* extension type but 0, which is rendered as ?0; no token is rendered as *.
C5_RawSigLiteralButSni ==
  \A n \in 1..Len(events) :
    LET f  == SplitOn(events[n].raw_sig, ":")
        cs == Tokens(f[2])
        ex == Tokens(f[3])
        sg == events[n].sig
    IN  /\ Len(f) = 4
        /\ Len(cs) = Len(sg.cipher_suites) - 1
        /\ Len(ex) = Len(sg.extensions) - 1
        /\ \A i \in 1..Len(cs) : IsLiteralHex(cs[i])
        /\ \A i \in 1..Len(ex) :
             IF sg.extensions[i] = 0 THEN ex[i] = <<"?", "0">>
             ELSE IsLiteralHex(ex[i])

C5_Witness ==
  \E n \in 1..Len(events) :
    /\ Len(events[n].sig.extensions) > 2
    /\ Len(events[n].sig.cipher_suites) > 2
    /\ \E i \in 1..Len(events[n].sig.extensions) : events[n].sig.extensions[i] = 0

\* The first 6 bytes match a template and fewer bytes are buffered than the
\* record declares
Waiting ==
  /\ Examined
  /\ \/ TemplateV2 /\ call.req_len < DeclaredV2
     \/ TemplateV3 /\ call.req_len < DeclaredV3

\* C7, as the specification states it: such a call asks for more data and
\* leaves the flow undetermined, whatever the buffered length.
C7_WaitingAsksForMore == Waiting => (call.ret = 1 /\ in_ssl = 0)

\* C7, amended: such a call leaves the flow undetermined, and asks for more
\* data exactly when fewer than MAX_FLOW_DATA bytes are buffered.
C7_WaitingAsksWhileRoom ==
  Waiting => /\ in_ssl = 0
             /\ call.ret = (IF call.req_len < MAX_FLOW_DATA THEN 1 ELSE 0)

C7_Witness == Waiting /\ call.req_len = MAX_FLOW_DATA /\ call.ret = 0

\* What the selected dissector returns on the buffered record
DissectorRet ==
  IF TemplateV2
    THEN fingerprint_ssl_v2([ZeroSig EXCEPT !.flags = SSL_FLAG_V2], CallBuf,
                            DeclaredV2).ret
    ELSE fingerprint_ssl_v3(ZeroSig, From(CallBuf, SizeofSsl3RecordHdr),
                            Be16(CallBuf, 3),
                            Byte(CallBuf, 1) * 256 + Byte(CallBuf, 2),
                            last_seen, FALSE).ret

Rejected ==
  /\ Examined
  /\ \/ ~LooksSsl2(CallBuf) /\ ~LooksSsl3(CallBuf)
     \/ TemplateV2 /\ call.req_len >= DeclaredV2 /\ DissectorRet = -1
     \/ TemplateV3 /\ call.req_len >= DeclaredV3 /\ DissectorRet = -1

\* C8: when neither template matches, or the whole record is buffered and the
\* dissector fails, the flow becomes ConfirmedNotSSL; no event, no lookup, a
\* normal return of 0.
C8_RejectedQuietly ==
  Rejected => /\ in_ssl = -1
              /\ events = << >>
              /\ lookup_cnt = 0
              /\ call.ret = 0
              /\ ~fatal

C8_Witness == Rejected /\ dissect_cnt = 1 /\ TemplateV3

\* The flow's states: f->in_ssl is 0, 1 or -1.
Undetermined    == in_ssl = 0
ConfirmedSSL    == in_ssl = 1
ConfirmedNotSSL == in_ssl = -1

\* C13: an event is emitted in a step exactly when the step moves the flow
\* from Undetermined to ConfirmedSSL, and every other step leaves the events
\* as they are; so a flow has at most one event, and has none while it is
\* Undetermined or ConfirmedNotSSL.
C13_EventIffConfirmed ==
  /\ [][IF Undetermined /\ ConfirmedSSL'
          THEN Len(events') = Len(events) + 1 /\ dissect_cnt' = dissect_cnt + 1
          ELSE events' = events]_vars
  /\ [](Len(events) <= 1)
  /\ [](~ConfirmedSSL => events = << >>)

\* one event, then a later call on the decided flow that emitted nothing
C13_Witness ==
  /\ ConfirmedSSL /\ Len(events) = 1 /\ dissect_cnt = 1
  /\ call.run /\ call.to_srv = 1 /\ call.was = 1 /\ call.path = "decided"

\* A step of ssl_register_sig, and of process_ssl, for the server direction.
\* (Register runs before any call of process_ssl; Receive changes req_len.)
ServerRegister == reg'.run /\ reg'.to_srv = 0 /\ ~call'.run
ServerProcess  == call'.run /\ call'.to_srv = 0 /\ req_len' = req_len

\* C14: ssl_register_sig for a direction other than the client's leaves the
\* table as it is and is not fatal, malformed text included; process_ssl for
\* a direction other than client-to-server leaves the flow as it is, emits
\* no event and returns 0.
C14_ServerInputIsInert ==
  [][/\ ServerRegister => signatures' = signatures /\ fatal' = FALSE
     /\ ServerProcess =>
           /\ in_ssl' = in_ssl /\ request' = request /\ last_seen' = last_seen
           /\ events' = events
           /\ dissect_cnt' = dissect_cnt /\ lookup_cnt' = lookup_cnt
           /\ call'.ret = 0]_vars

\* a malformed line for the server after a client's line, then a full
\* ClientHello examined for the server direction
C14_Witness ==
  /\ reg.run /\ reg.to_srv = 0 /\ reg.malformed /\ Malformed(Line_Bad)
  /\ Len(signatures) = 1 /\ ~fatal
  /\ call.run /\ call.to_srv = 0 /\ call.was = 0
  /\ call.req_len = Len(request) /\ LooksSsl3(request)
  /\ Undetermined /\ events = << >>

\* The flow's bytes passed the SSLv2 test of process_ssl, so the signature
\* of its event is the SSLv2 dissector's (a flow has one request and at
\* most one event).
FromSsl2 == LooksSsl2(request)

FlagsWellFormed(sig) ==
  /\ ~(HasBit(sig.flags, SSL_FLAG_TIME) /\ HasBit(sig.flags, SSL_FLAG_STIME))
  /\ HasBit(sig.flags, SSL_FLAG_V2) <=> FromSsl2
  /\ HasBit(sig.flags, SSL_FLAG_V2) =>
       /\ sig.flags = SSL_FLAG_V2
       /\ sig.extensions = <<END_MARKER>>

\* C21: the signature of every event never has both TIME and STIME, and has
\* V2 iff the SSLv2 dissector made it; then V2 is its only flag and it has
\* no extensions.
C21_ObservedFlags ==
  \A i \in 1..Len(events) : FlagsWellFormed(events[i].sig)

\* an SSLv2 signature was emitted
C21_Witness ==
  /\ Len(events) = 1 /\ FromSsl2 /\ ConfirmedSSL
  /\ events[1].sig.flags = SSL_FLAG_V2
  /\ Len(events[1].sig.cipher_suites) = 3

\* SSLv3/TLS signatures with STIME, and with TIME, VER or COMPR, were emitted
C21_WitnessStime ==
  /\ Len(events) = 1 /\ ~FromSsl2
  /\ HasBit(events[1].sig.flags, SSL_FLAG_STIME)

C21_WitnessTime ==
  /\ Len(events) = 1 /\ ~FromSsl2
  /\ HasBit(events[1].sig.flags, SSL_FLAG_TIME)

C21_WitnessVerCompr ==
  /\ Len(events) = 1 /\ ~FromSsl2
  /\ HasBit(events[1].sig.flags, SSL_FLAG_VER)
  /\ HasBit(events[1].sig.flags, SSL_FLAG_COMPR)

(***************************************************************************)
(* match_sigs on drawn sequences, one loop iteration at a time.             *)
(***************************************************************************)
MaxRefLen == 3
MaxObsLen == 3

SeqsUpTo(S, n) == UNION {[1..k -> S] : k \in 0..n}
Arr(seq) == Append(seq, END_MARKER)

RefTokens == {1, 2, MATCH_ANY, MATCH_MAYBE + 1, MATCH_MAYBE + 2}
ObsValues == {1, 2, 3}

\* pattern 1,*,2 against 1,2,3,2
GreedyRec == <<1, MATCH_ANY, 2, END_MARKER>>
GreedySig == <<1, 2, 3, 2, END_MARKER>>

InitMatch ==
  /\ \E pair \in ({Arr(r) : r \in SeqsUpTo(RefTokens, MaxRefLen)}
                     \X {Arr(o) : o \in SeqsUpTo(ObsValues, MaxObsLen)})
                  \cup {<<GreedyRec, GreedySig>>} :
       m_rec = pair[1] /\ m_sig = pair[2]
  /\ m_st = MatchStart
  /\ m_pc = "loop"
  /\ IdleDb /\ IdleFlow /\ IdleFun

MatchLoop ==
  /\ m_pc = "loop"
  /\ MatchLoopCond(m_rec, m_sig, m_st)
  /\ m_st' = MatchIter(m_rec, m_sig, m_st)
  /\ m_pc' = IF m_st'.ret # -1 THEN "done" ELSE "loop"
  /\ UNCHANGED <<m_rec, m_sig, dbVars, flowVars, funVars>>

MatchEnd ==
  /\ m_pc = "loop"
  /\ ~MatchLoopCond(m_rec, m_sig, m_st)
  /\ m_st' = MatchFinish(m_rec, m_sig, m_st)
  /\ m_pc' = "done"
  /\ UNCHANGED <<m_rec, m_sig, dbVars, flowVars, funVars>>

NextMatch == MatchLoop \/ MatchEnd

SpecMatch == InitMatch /\ [][NextMatch]_vars

GreedyDone == m_pc = "done" /\ m_rec = GreedyRec /\ m_sig = GreedySig

\* C3, as the specification states it: pattern 1,*,2 matches 1,2,3,2.
C3_GreedyExampleMatches == GreedyDone => m_st.ret = 0

\* C3, amended: pattern 1,*,2 does not match 1,2,3,2: the 2 right after the
\* star is taken by the observed 2 that follows the 1, which ends the
\* wildcard, and 3,2 are left over.
C3_GreedyExampleFails ==
  GreedyDone => /\ m_st.ret = 1
                /\ m_st.match_any = 0
                /\ m_sig[m_st.si] = 3

C3_Witness == GreedyDone /\ m_rec[m_st.ri] = END_MARKER

MatchDone == m_pc = "done"
Matched   == MatchDone /\ m_st.ret = 0

\* C11: a sequence of exact values, the empty one included, matches itself:
\* match_sigs(S, S) returns 0.
C11_MatchesItself == (MatchDone /\ m_rec = m_sig) => m_st.ret = 0

C11_Witness ==
  /\ Matched /\ m_rec = m_sig /\ Len(m_sig) = MaxObsLen + 1
  /\ m_st.ri = Len(m_rec) /\ m_st.si = Len(m_sig)

\* C12: the record that holds only the star matches every exact sequence,
\* the empty one included: match_sigs([MATCH_ANY], S) returns 0.
StarOnly == <<MATCH_ANY, END_MARKER>>

C12_StarMatchesAll == (MatchDone /\ m_rec = StarOnly) => m_st.ret = 0

C12_Witness ==
  /\ Matched /\ m_rec = StarOnly /\ Len(m_sig) = MaxObsLen + 1
  /\ m_st.match_any = 1 /\ m_st.si = 1

\* An optional token is the current one of the loop and no star is pending.
OptionalReached ==
  /\ m_pc = "loop" /\ MatchLoopCond(m_rec, m_sig, m_st)
  /\ HasBit(m_rec[m_st.ri], MATCH_MAYBE)
  /\ m_st.match_any = 0

Skipped ==
  m_st' = [m_st EXCEPT !.ri = @ + 1]

Consumed ==
  m_st' = [m_st EXCEPT !.ri = @ + 1, !.si = @ + 1]

\* C16, as the specification states it: an optional token reached while no
\* star is pending is skipped whatever the current observed value is: the
\* record cursor moves by one, the signature cursor stays, match_any stays 0.
C16_OptionalAlwaysSkipped == [][OptionalReached => Skipped]_vars

\* C16, amended: an optional token reached while no star is pending is
\* skipped when the current observed value differs from its value, and is
\* consumed together with the observed value when they are equal; match_any
\* stays 0 in both cases.
C16_OptionalSkippedUnlessEqual ==
  [][OptionalReached =>
       IF ClrBit(m_rec[m_st.ri], MATCH_MAYBE) = m_sig[m_st.si]
         THEN Consumed ELSE Skipped]_vars

\* ?1 against 1: the optional token took the observed 1
C16_Witness ==
  /\ Matched
  /\ m_rec = <<MATCH_MAYBE + 1, END_MARKER>> /\ m_sig = <<1, END_MARKER>>
  /\ m_st.ri = 2 /\ m_st.si = 2 /\ m_st.match_any = 0

\* The exact tokens of a record, in order, and the values of a signature.
IsExactToken(r) == r # MATCH_ANY /\ r # END_MARKER /\ ~HasBit(r, MATCH_MAYBE)
ExactTokens(rec) == SelectSeq(rec, IsExactToken)
Values(sig) == SubSeq(sig, 1, Len(sig) - 1)

\* a occurs in b, in b's order
RECURSIVE IsSubsequence(_, _)
IsSubsequence(a, b) ==
  IF a = << >> THEN TRUE
  ELSE IF b = << >> THEN FALSE
  ELSE IF Head(a) = Head(b) THEN IsSubsequence(Tail(a), Tail(b))
  ELSE IsSubsequence(a, Tail(b))

\* C20: when match_sigs returns 0, every exact token of the record has an
\* equal value in the signature, and these values come in the record's order.
C20_MatchIsSound ==
  Matched => IsSubsequence(ExactTokens(m_rec), Values(m_sig))

(***************************************************************************)
(* ssl_find_match on drawn tables and observed signatures.                  *)
(***************************************************************************)
RefSigs ==
  [request_version : {768, 769}, flags : {0, SSL_FLAG_VER},
   extensions : {<<MATCH_ANY, END_MARKER>>, <<10, END_MARKER>>},
   cipher_suites : {<<MATCH_ANY, END_MARKER>>, <<47, END_MARKER>>}]

ObsSigs ==
  {[ZeroSig EXCEPT !.request_version = v, !.flags = fl, !.extensions = ex,
                   !.cipher_suites = cs] :
     v \in {768, 769}, fl \in {0, SSL_FLAG_VER},
     ex \in {<<END_MARKER>>, <<10, END_MARKER>>},
     cs \in {<<47, END_MARKER>>, <<53, END_MARKER>>}}

Tables ==
  {[i \in 1..Len(ss) |-> [sig |-> ss[i], name_id |-> i, line_no |-> i]] :
     ss \in SeqsUpTo(RefSigs, MaxSigs)}

InitFind ==
  /\ x_in \in [db : Tables, ts : ObsSigs]
  /\ x_out = NotRun
  /\ IdleDb /\ IdleFlow /\ IdleMatch

FindApply ==
  /\ x_out = NotRun
  /\ x_out' = [run |-> TRUE, matched |-> ssl_find_match(x_in.db, x_in.ts)]
  /\ UNCHANGED <<x_in, dbVars, flowVars, matchVars>>

SpecFind == InitFind /\ [][FindApply]_vars

\* The four conditions of a match, on record i of the drawn table
Fits(i) ==
  LET rs == x_in.db[i].sig
      ts == x_in.ts
  IN  /\ rs.request_version = ts.request_version
      /\ rs.flags = ts.flags
      /\ match_sigs(rs.extensions, ts.extensions) = 0
      /\ match_sigs(rs.cipher_suites, ts.cipher_suites) = 0

\* C2: ssl_find_match returns the first record, in registration order, with
\* equal version, equal flags, and matching extensions and cipher suites;
\* it returns none exactly when no record has all four.
C2_FirstMatchInOrder ==
  x_out.run =>
    /\ (x_out.matched = 0) <=> (\A i \in 1..Len(x_in.db) : ~Fits(i))
    /\ x_out.matched # 0 =>
         /\ x_out.matched \in 1..Len(x_in.db)
         /\ Fits(x_out.matched)
         /\ \A j \in 1..(x_out.matched - 1) : ~Fits(j)

C2_Witness ==
  /\ x_out.run
  /\ Len(x_in.db) = 2
  /\ x_in.db[1].sig # x_in.db[2].sig
  /\ Fits(1) /\ Fits(2)
  /\ x_out.matched = 1

(***************************************************************************)
(* ssl_register_sig on drawn signature lines.                               *)
(***************************************************************************)
MaxFlagWords == 2

Keywords  == {flags[i].name : i \in 1..Len(flags)}
JunkWords == {<<"f", "o", "o">>, <<"c", "o", "m", "p", "v", "e", "r">>}
GoodHead  == <<"3", ".", "1", ":", "2", "f", ",", "3", "5", ":", "*", ":">>
BadHead   == <<"3", ".", "1", ":", "z", "z", ":", "*", ":">>

RECURSIVE Join(_)
Join(words) ==
  IF words = << >> THEN << >>
  ELSE IF Len(words) = 1 THEN words[1]
  ELSE words[1] \o <<",">> \o Join(Tail(words))

OneRecord == ssl_register_sig(<< >>, 1, 1, Line_Any31, 1).signatures

InitReg ==
  /\ x_in \in [to_srv : {0, 1}, head : {GoodHead, BadHead},
               words : SeqsUpTo(Keywords \cup JunkWords, MaxFlagWords)]
  /\ x_out = NotRun
  /\ signatures \in {<< >>, OneRecord}
  /\ fatal = FALSE /\ reg = NoReg
  /\ IdleFlow /\ IdleMatch

RegApply ==
  /\ x_out = NotRun
  /\ LET r == ssl_register_sig(signatures, x_in.to_srv, Len(signatures) + 1,
                               x_in.head \o Join(x_in.words),
                               Len(signatures) + 1)
     IN  /\ signatures' = r.signatures
         /\ fatal' = r.fatal
         /\ reg' = [run |-> TRUE, to_srv |-> x_in.to_srv,
                    before |-> Len(signatures)]
  /\ x_out' = [run |-> TRUE, before |-> signatures]
  /\ UNCHANGED <<x_in, flowVars, matchVars>>

SpecReg == InitReg /\ [][RegApply]_vars

\* The bitset of a list of keywords
RECURSIVE FlagSetOf(_)
FlagSetOf(words) ==
  IF words = << >> THEN 0
  ELSE SetBit(FlagSetOf(Tail(words)),
              flags[CHOOSE i \in 1..Len(flags) : flags[i].name = Head(words)].value)

\* C4: a client line with well formed version, cipher and extension fields
\* and a flags field listing keywords of {compr, v2, ver, time, stime}
\* registers without a fatal error and appends exactly one record whose flags
\* are the keywords listed; any other text in the flags field is fatal.
C4_KeywordListRegisters ==
  (x_out.run /\ x_in.to_srv = 1 /\ x_in.head = GoodHead) =>
    IF \A i \in 1..Len(x_in.words) : x_in.words[i] \in Keywords
      THEN /\ ~fatal
           /\ Len(signatures) = Len(x_out.before) + 1
           /\ SubSeq(signatures, 1, Len(x_out.before)) = x_out.before
           /\ signatures[Len(signatures)].sig.flags = FlagSetOf(x_in.words)
      ELSE fatal

\* On the lines drawn here that hold neither the keyword compr nor text that
\* starts with comp, the same does hold of the code.
RegisterButCompr ==
  (/\ x_out.run /\ x_in.to_srv = 1 /\ x_in.head = GoodHead
   /\ \A i \in 1..Len(x_in.words) :
        ~(Len(x_in.words[i]) >= 4
          /\ SubSeq(x_in.words[i], 1, 4) = <<"c", "o", "m", "p">>)) =>
    IF \A i \in 1..Len(x_in.words) : x_in.words[i] \in Keywords
      THEN /\ ~fatal
           /\ Len(signatures) = Len(x_out.before) + 1
           /\ SubSeq(signatures, 1, Len(x_out.before)) = x_out.before
           /\ signatures[Len(signatures)].sig.flags = FlagSetOf(x_in.words)
      ELSE fatal

(***************************************************************************)
(* The codec on drawn sequences of exact values: dump_sig's rendering of a  *)
(* field, decode_hex_string, and the rendering again.                       *)
(***************************************************************************)
MaxCodecLen == 2

CodecValues == {0, 10, 47, 16777215}

Render(field, arr) ==
  IF field = "cipher" THEN DumpCiphers(arr, 1) ELSE DumpExtensions(arr, 1)

InitCodec ==
  /\ x_in \in [field : {"cipher", "ext"},
               seq : {Arr(q) : q \in SeqsUpTo(CodecValues, MaxCodecLen)}]
  /\ x_out = NotRun
  /\ IdleDb /\ IdleFlow /\ IdleMatch

Encode ==
  /\ x_out = NotRun
  /\ x_out' = [run |-> TRUE, step |-> 1, text |-> Render(x_in.field, x_in.seq)]
  /\ UNCHANGED <<x_in, dbVars, flowVars, matchVars>>

Decode ==
  /\ x_out.run /\ x_out.step = 1
  /\ x_out' = [run |-> TRUE, step |-> 2, text |-> x_out.text,
               decoded |-> decode_hex_string(x_out.text, 1)]
  /\ UNCHANGED <<x_in, dbVars, flowVars, matchVars>>

Reencode ==
  /\ x_out.run /\ x_out.step = 2
  /\ x_out.decoded.ret # NULL
  /\ x_out' = [run |-> TRUE, step |-> 3, text |-> x_out.text,
               decoded |-> x_out.decoded,
               again |-> Render(x_in.field, x_out.decoded.ret)]
  /\ UNCHANGED <<x_in, dbVars, flowVars, matchVars>>

NextCodec == Encode \/ Decode \/ Reencode

SpecCodec == InitCodec /\ [][NextCodec]_vars

\* C9: for a sequence of exact values of any length from 0, in either field,
\* rendering, decoding and rendering again succeeds and gives the first text.
C9_RoundTrip ==
  /\ (x_out.run /\ x_out.step >= 2) =>
       (~x_out.decoded.fatal /\ x_out.decoded.ret # NULL)
  /\ (x_out.run /\ x_out.step = 3) => x_out.again = x_out.text

\* On the sequences drawn here that hold 1 or more values, the round trip
\* does hold of the code.
RoundTripNonEmpty ==
  /\ (x_out.run /\ x_out.step >= 2 /\ Len(x_in.seq) > 1) =>
       (~x_out.decoded.fatal /\ x_out.decoded.ret # NULL)
  /\ (x_out.run /\ x_out.step = 3) => x_out.again = x_out.text

(***************************************************************************)
(* fingerprint_ssl_v2 on drawn messages.                                    *)
(***************************************************************************)
V2Ciphers == { << >>, <<7, 0, 192>>, <<1, 0, 128, 7, 0, 192>>,
               <<255, 255, 255, 0, 0, 0>> }

\* The session id and the challenge: the two lengths the header declares and
\* the number of bytes that follow the cipher specs
V2Trailers == { <<0, 0, 0>>, <<0, 16, 16>>, <<4, 4, 16>> }

\* The cipher specs cs with a cipher_spec_length of Len(cs) + more, the
\* trailer tr, and a pay_len that is short of the bytes by short.
V2Inputs ==
  { i \in
      { [buf |-> Hello2(9 + Len(cs) + tr[3], ver[1], ver[2], Len(cs) + more,
                        tr[1], tr[2], cs \o Fill(tr[3], 7)),
         pay_len |-> SizeofSsl2Hdr + Len(cs) + tr[3] - short] :
          ver \in {<<3, 0>>, <<0, 2>>},
          cs \in V2Ciphers,
          more \in {0, 1, 3},
          tr \in V2Trailers,
          short \in {0, 2, 12} } : i.pay_len >= 0 }
  \cup { [buf |-> LiteralV2, pay_len |-> n] : n \in {17, 49} }

InitV2 ==
  /\ x_in \in V2Inputs
  /\ x_out = NotRun
  /\ IdleDb /\ IdleFlow /\ IdleMatch

V2Apply ==
  /\ x_out = NotRun
  /\ LET r == fingerprint_ssl_v2([ZeroSig EXCEPT !.flags = SSL_FLAG_V2],
                                 x_in.buf, x_in.pay_len)
     IN  x_out' = [run |-> TRUE, ret |-> r.ret, sig |-> r.sig, path |-> r.path]
  /\ UNCHANGED <<x_in, dbVars, flowVars, matchVars>>

SpecV2 == InitV2 /\ [][V2Apply]_vars

LiteralDone == x_out.run /\ x_in.buf = LiteralV2

\* The header's cipher_spec_length, and the i-th cipher spec, as the bytes
\* of the input have them
WireCipherLen == x_in.buf[6] * 256 + x_in.buf[7]
WireCipher(i) ==
  LET at == SizeofSsl2Hdr + 3 * (i - 1)
  IN  x_in.buf[at + 1] * 65536 + x_in.buf[at + 2] * 256 + x_in.buf[at + 3]
WireTrailer == x_in.buf[8] * 256 + x_in.buf[9] + x_in.buf[10] * 256 + x_in.buf[11]

V2Done == x_out.run

V2MustFail ==
  \/ x_in.pay_len < 11
  \/ WireCipherLen % 3 # 0
  \/ 11 + WireCipherLen > x_in.pay_len

\* C18: fingerprint_ssl_v2 fails iff the header does not fit, the
\* cipher_spec_length is no multiple of 3, or the cipher specs pass the
\* bytes given; otherwise it returns 1 with cipher_spec_length / 3 values,
\* the big-endian 24-bit cipher codes in wire order, and no extensions,
\* whatever the session id and challenge lengths say.
C18_V2FailsIffMalformed ==
  V2Done =>
    IF V2MustFail THEN x_out.ret = -1
    ELSE /\ x_out.ret = 1
         /\ Len(x_out.sig.cipher_suites) = WireCipherLen \div 3 + 1
         /\ \A i \in 1..(WireCipherLen \div 3) :
              x_out.sig.cipher_suites[i] = WireCipher(i)
         /\ x_out.sig.cipher_suites[WireCipherLen \div 3 + 1] = END_MARKER
         /\ x_out.sig.extensions = <<END_MARKER>>

\* two cipher specs read, and the session id and challenge pass the bytes
C18_Witness ==
  /\ V2Done /\ x_out.ret = 1 /\ ~V2MustFail
  /\ WireCipherLen = 6
  /\ 11 + WireCipherLen + WireTrailer > x_in.pay_len

\* bytes are left over after the challenge
C18_WitnessLeftover ==
  /\ V2Done /\ x_out.ret = 1 /\ WireCipherLen = 6
  /\ 11 + WireCipherLen + WireTrailer < x_in.pay_len


\* C6, as the specification states it: the bytes
\* 80 2F 01 00 02 00 00 00 00 00 06 01 00 80 07 00 C0 dissect to version 3.0,
\* cipher_spec_length 6, cipher suites 0x010080 and 0x0700C0, no extensions.
C6_LiteralIsV3WithTwoCiphers ==
  LiteralDone =>
    /\ x_out.ret = 1
    /\ x_out.sig.request_version = 768
    /\ Be16(x_in.buf, Ssl2CipherLen) = 6
    /\ x_out.sig.cipher_suites = <<65664, 458944, END_MARKER>>
    /\ x_out.sig.extensions = <<END_MARKER>>

\* C6, amended: the bytes carry version bytes 00 02, cipher_spec_length 0 and
\* challenge_length 6, so they dissect to version 2.0 (0x0200), no cipher
\* suites and no extensions.
C6_LiteralIsV2WithNoCiphers ==
  LiteralDone =>
    /\ x_out.ret = 1
    /\ x_out.sig.request_version = 512
    /\ Be16(x_in.buf, Ssl2CipherLen) = 0
    /\ x_out.sig.cipher_suites = <<END_MARKER>>
    /\ x_out.sig.extensions = <<END_MARKER>>

C6_Witness == LiteralDone /\ x_in.pay_len = 17 /\ x_out.path = "exact"

(***************************************************************************)
(* fingerprint_ssl_v3 on drawn ClientHello messages, whole and cut off       *)
(* inside the extension list.                                               *)
(***************************************************************************)
MaxExts == 2

ExtChoices == { [type |-> 0, len |-> 2], [type |-> 10, len |-> 0],
                [type |-> 35, len |-> 1] }

\* The extensions block: its 2-byte length, then the extensions.  keep bytes
\* of it are given; the length fields say the whole or what is given.
CutHello(exts, keep, msg_cut, ext_cut) ==
  LET head  == HelloHead(769, NearNow, 0, <<47, 53>>, <<0>>)
      whole == ExtList(exts)
      said  == IF ext_cut /\ keep >= 2 THEN keep - 2 ELSE Len(whole)
      body  == head \o SubSeq(Put16(said) \o whole, 1, keep)
  IN  [frag |-> Handshake(SSL3_MSG_CLIENT_HELLO,
                          IF msg_cut THEN Len(body)
                          ELSE Len(head) + 2 + Len(whole),
                          body),
       frag_len |-> SizeofSsl3MessageHdr + Len(body),
       record_version |-> 769,
       local_time |-> Now,
       exts |-> exts,
       cut |-> keep < 2 + Len(whole),
       msg_cut |-> msg_cut,
       ext_cut |-> ext_cut]

V3Inputs ==
  UNION { { CutHello(exts, keep, msg_cut, ext_cut) :
              keep \in 0..(2 + Len(ExtList(exts))),
              msg_cut \in BOOLEAN,
              ext_cut \in BOOLEAN } :
          exts \in SeqsUpTo(ExtChoices, MaxExts) }

InitV3 ==
  /\ x_in \in V3Inputs
  /\ x_out = NotRun
  /\ IdleDb /\ IdleFlow /\ IdleMatch

V3Apply ==
  /\ x_out = NotRun
  /\ \E abs_min \in BOOLEAN :
       LET r == fingerprint_ssl_v3(ZeroSig, x_in.frag, x_in.frag_len,
                                   x_in.record_version, x_in.local_time,
                                   abs_min)
       IN  x_out' = [run |-> TRUE, ret |-> r.ret, sig |-> r.sig, path |-> r.path]
  /\ UNCHANGED <<x_in, dbVars, flowVars, matchVars>>

SpecV3 == InitV3 /\ [][V3Apply]_vars

IsPrefix(a, b) == Len(a) <= Len(b) /\ a = SubSeq(b, 1, Len(a))

\* A non-null, terminated extensions sequence holding a prefix, in wire
\* order, of the extension types of the message
PrefixOfWire ==
  /\ x_out.ret = 1
  /\ x_out.sig.extensions # NULL
  /\ x_out.sig.extensions[Len(x_out.sig.extensions)] = END_MARKER
  /\ IsPrefix(SubSeq(x_out.sig.extensions, 1, Len(x_out.sig.extensions) - 1),
              ExtTypes(x_in.exts))

\* C10, as the specification states it: a ClientHello cut off inside the
\* extension list never fails, and yields a prefix of the extension types.
C10_CutHelloNeverFails == (x_out.run /\ x_in.cut) => PrefixOfWire

\* C10, amended: it does so when the handshake message length lies within
\* the fragment given; when the message length still declares the bytes that
\* were cut off, the dissector fails.
C10_CutHelloWithinFragment ==
  (x_out.run /\ x_in.cut) =>
    IF x_in.msg_cut THEN PrefixOfWire ELSE x_out.ret = -1

C10_Witness ==
  /\ x_out.run /\ x_in.cut /\ x_in.msg_cut /\ x_out.ret = 1
  /\ Len(x_out.sig.extensions) = 2
  /\ Len(x_in.exts) = 2
  /\ x_out.path = "parsed"

(***************************************************************************)
(* decode_hex_string on well formed sequences around its capacity.          *)
(***************************************************************************)
\* The most tokens past the capacity of decode_hex_string
MaxOver == 2

\* Well formed tokens as text, and the value each one stands for
TokenForms ==
  { [text |-> <<"*">>,                          tok |-> MATCH_ANY],
    [text |-> <<"?", "0">>,                     tok |-> MATCH_MAYBE],
    [text |-> <<"?", "c", "0", "1", "3">>,      tok |-> MATCH_MAYBE + 49171],
    [text |-> <<"2", "f">>,                     tok |-> 47],
    [text |-> <<"f", "f", "f", "f", "f", "f">>, tok |-> 16777215] }

TokenCounts == (1..3) \cup ((DecodeCapacity - 2)..(DecodeCapacity + MaxOver))

\* n tokens: the first one, then the filling one; joined by commas
TokenAt(first, fill, i) == IF i = 1 THEN first ELSE fill

TokenText(first, fill, n) ==
  LET more == <<",">> \o fill.text
  IN  first.text \o
        [i \in 1..((n - 1) * Len(more)) |-> more[((i - 1) % Len(more)) + 1]]

TokenValues(first, fill, n) == [i \in 1..n |-> TokenAt(first, fill, i).tok]

Terminators == {<<":">>, << >>}

InitCap ==
  /\ \E first \in TokenForms, fill \in TokenForms, n \in TokenCounts,
        term \in Terminators :
       x_in = [run |-> TRUE, n |-> n, first |-> first, fill |-> fill,
               text |-> TokenText(first, fill, n) \o term]
  /\ x_out = DecodeStart(1)
  /\ IdleDb /\ IdleFlow /\ IdleMatch

\* one round of the loop of decode_hex_string
CapLoop ==
  /\ x_out.out = "run" /\ ~DecodeFull(x_out.rec)
  /\ x_out' = DecodeIter(x_in.text, x_out)
  /\ UNCHANGED <<x_in, dbVars, flowVars, matchVars>>

\* the loop ends with p = 128
CapFatal ==
  /\ x_out.out = "run" /\ DecodeFull(x_out.rec)
  /\ x_out' = DecodeFatal(x_out)
  /\ UNCHANGED <<x_in, dbVars, flowVars, matchVars>>

NextCap == CapLoop \/ CapFatal

SpecCap == InitCap /\ [][NextCap]_vars

CapResult == DecodeResult(x_out)

Decoded == x_out.out # "run"

\* C15: decode_hex_string returns the tokens and the END_MARKER, with val at
\* the terminator, for every well formed sequence of 1 to 128 tokens, and
\* ends in FATAL (it does not return NULL) exactly when there are more.
C15_FatalPast128 ==
  Decoded =>
    IF x_in.n <= 128
      THEN /\ ~CapResult.fatal
           /\ CapResult.ret = Arr(TokenValues(x_in.first, x_in.fill, x_in.n))
           /\ CapResult.val = Len(TokenText(x_in.first, x_in.fill, x_in.n)) + 1
      ELSE CapResult.fatal /\ CapResult.ret = NULL

\* 128 tokens are decoded
C15_Witness ==
  /\ Decoded /\ x_in.n = 128 /\ x_out.out = "ok"
  /\ Len(CapResult.ret) = 129 /\ CapResult.ret[128] = MATCH_MAYBE + 49171
  /\ CapResult.ret[129] = END_MARKER

\* 129 tokens are fatal
C15_WitnessFatal == Decoded /\ x_in.n = 129 /\ x_out.out = "fatal"

(***************************************************************************)
(* fingerprint_ssl_v3 on ClientHellos that differ in their timestamp, for   *)
(* local clocks and timestamps around the two thresholds.                   *)
(***************************************************************************)
\* How far around a threshold the timestamps are drawn, in seconds
MaxNudge == 1

U32Max == <<65535, 65535>>
U32Add(a, b) == U32Sub(a, U32Sub(U32Zero, b))

Near(t) == UNION {{U32Add(t, <<0, d>>), U32Sub(t, <<0, d>>)} : d \in 0..MaxNudge}

LocalTimes == {Now, U32Zero, <<40000, 1>>, U32Max}

RemoteTimes(local) ==
  Near(OneYear) \cup Near(U32Sub(local, FiveYears))
    \cup Near(U32Add(local, FiveYears))
    \cup {local, U32Add(local, IntMin), U32Zero, U32Max}

TimedHello(remote) == Hello3(769, 769, remote, <<47>>, <<0>>, << >>)

InitTime ==
  /\ \E local \in LocalTimes, abs_min \in BOOLEAN :
       \E remote \in RemoteTimes(local) :
         x_in = [run |-> TRUE, local_time |-> local, remote_time |-> remote,
                 abs_min |-> abs_min]
  /\ x_out = NotRun
  /\ IdleDb /\ IdleFlow /\ IdleMatch

TimeApply ==
  /\ ~x_out.run
  /\ LET hello == TimedHello(x_in.remote_time)
         r == fingerprint_ssl_v3(ZeroSig, From(hello, SizeofSsl3RecordHdr),
                                 Len(hello) - SizeofSsl3RecordHdr, 769,
                                 x_in.local_time, x_in.abs_min)
     IN  x_out' = [run |-> TRUE, ret |-> r.ret, flags |-> r.sig.flags,
                   remote_time |-> r.sig.remote_time, drift |-> r.sig.drift]
  /\ UNCHANGED <<x_in, dbVars, flowVars, matchVars>>

SpecTime == InitTime /\ [][TimeApply]_vars

Timed == x_out.run /\ x_out.ret = 1

\* The two clock values are more than five years apart, whichever is ahead
\* (differences are taken modulo 2^32, as the s32 drift is).
FarApart(local, remote) ==
  /\ U32Lt(FiveYears, U32Sub(local, remote))
  /\ U32Lt(FiveYears, U32Sub(remote, local))

StimeRule ==
  HasBit(x_out.flags, SSL_FLAG_STIME) <=> U32Lt(x_in.remote_time, OneYear)

TimeRule ==
  ~HasBit(x_out.flags, SSL_FLAG_STIME) =>
    (HasBit(x_out.flags, SSL_FLAG_TIME)
       <=> FarApart(x_in.local_time, x_in.remote_time))

\* C17: for every local_time and remote_time the dissector sets STIME iff
\* remote_time is below one year, and otherwise sets TIME iff the absolute
\* value of the 32-bit signed drift exceeds five years.
C17_TimeFlagsForEveryPair ==
  Timed => /\ x_out.remote_time = x_in.remote_time
           /\ x_out.drift = U32Sub(x_in.local_time, x_in.remote_time)
           /\ StimeRule
           /\ TimeRule

\* For every pair drawn here whose drift is not the least s32 value, the
\* rules do hold of the code.
TimeFlagsButIntMin ==
  (Timed /\ x_out.drift # IntMin) => StimeRule /\ TimeRule

\* The drift is the least s32 value and TIME is not set
DriftIntMinNoTime ==
  /\ Timed /\ x_out.drift = IntMin
  /\ ~HasBit(x_out.flags, SSL_FLAG_STIME) /\ ~HasBit(x_out.flags, SSL_FLAG_TIME)

(***************************************************************************)
(* Both dissectors on the drawn SSLv2 and SSLv3/TLS inputs, with the        *)
(* largest codes the wire can carry among them.                             *)
(***************************************************************************)
LargestHello ==
  LET exts == << [type |-> 65535, len |-> 0], [type |-> 0, len |-> 1] >>
      h == Hello3(769, 769, NearNow, <<65535, 0, 255>>, <<0>>, exts)
  IN  [frag |-> From(h, SizeofSsl3RecordHdr),
       frag_len |-> Len(h) - SizeofSsl3RecordHdr,
       record_version |-> 769,
       local_time |-> Now,
       exts |-> exts,
       cut |-> FALSE, msg_cut |-> FALSE, ext_cut |-> FALSE]

IsV2Input == "buf" \in DOMAIN x_in
IsV3Input == "frag" \in DOMAIN x_in

InitObserved ==
  /\ x_in \in V2Inputs \cup V3Inputs \cup {LargestHello}
  /\ x_out = NotRun
  /\ IdleDb /\ IdleFlow /\ IdleMatch

DissectV2 == IsV2Input /\ V2Apply
DissectV3 == IsV3Input /\ V3Apply

NextObserved == DissectV2 \/ DissectV3

SpecObserved == InitObserved /\ [][NextObserved]_vars

Dissected == x_out.run /\ x_out.ret = 1

\* Only exact values up to the terminator, which is the last element
OnlyExact(arr) ==
  /\ arr # NULL
  /\ arr[Len(arr)] = END_MARKER
  /\ \A i \in 1..(Len(arr) - 1) :
       /\ arr[i] # MATCH_ANY
       /\ arr[i] # END_MARKER
       /\ ~HasBit(arr[i], MATCH_MAYBE)
       /\ arr[i] \in 0..16777215

\* C19: after a successful dissection by fingerprint_ssl_v2 or
\* fingerprint_ssl_v3 the cipher_suites and the extensions hold exact values
\* only: no star, no optional mark, no END_MARKER before the last element.
C19_ObservedOnlyExact ==
  Dissected => /\ OnlyExact(x_out.sig.cipher_suites)
               /\ OnlyExact(x_out.sig.extensions)

\* the largest SSLv2 cipher code was read
C19_Witness ==
  /\ Dissected /\ IsV2Input
  /\ x_out.sig.cipher_suites = <<16777215, 0, END_MARKER>>

\* the largest SSLv3/TLS cipher and extension codes were read
C19_WitnessV3 ==
  /\ Dissected /\ IsV3Input
  /\ x_out.sig.cipher_suites = <<65535, 0, 255, END_MARKER>>
  /\ x_out.sig.extensions = <<65535, 0, END_MARKER>>


====
